---------------------------- MODULE Spec2Model ----------------------------
(***************************************************************************)
(* Model of pipe.py (SerialRecorderApp): the bounded serial capture loop,  *)
(* the label store on disk, the sample writer, and the Tk event handlers   *)
(* that drive them.                                                        *)
(*                                                                         *)
(* Strings are sequences of code points, so that sorting, splitting,       *)
(* stripping and formatting are computed the way Python computes them.     *)
(* Tk indexes are 0-based, as in the source; -1 stands for "no selection". *)
(***************************************************************************)
EXTENDS Integers, Sequences, FiniteSets, TLC

(***************************************************************************)
(* Bounds of the model.                                                    *)
(***************************************************************************)
MaxLabels == 2       \* label directories on disk
ClockStart == 9      \* wall clock (seconds) at program start
MaxTicks == 1        \* seconds the wall clock advances
MaxDepth == 2        \* nested record_and_save_data frames
MaxDialogs == 2      \* names logged from the new-label dialog
MaxLines == 2        \* lines read from the device in one capture

(***************************************************************************)
(* Program constants.                                                      *)
(***************************************************************************)
DATA_COLUMNS == 6
RECORD_DURATION_MS == 2500

None == "None"

(***************************************************************************)
(* Strings.                                                                *)
(***************************************************************************)
CsvExt == <<46, 99, 115, 118>>                               \* ".csv"
NoLabels == <<78, 111, 32, 76, 97, 98, 101, 108, 115>>        \* "No Labels"
SamplesSuffix == <<32, 115, 97, 109, 112, 108, 101, 115, 41>> \* " samples)"

IsSpace(c) == c \in {9, 10, 13, 32}

IsAlnum(c) == c \in (48..57) \cup (65..90) \cup (97..122)

\* str.strip()
RECURSIVE LStrip(_)
LStrip(s) == IF s # <<>> /\ IsSpace(Head(s)) THEN LStrip(Tail(s)) ELSE s

RECURSIVE RStrip(_)
RStrip(s) ==
    IF s # <<>> /\ IsSpace(s[Len(s)]) THEN RStrip(SubSeq(s, 1, Len(s) - 1)) ELSE s

Strip(s) == RStrip(LStrip(s))

\* s.split(' ')[0]
RECURSIVE SplitFirst(_)
SplitFirst(s) ==
    IF s = <<>> \/ Head(s) = 32 THEN <<>> ELSE <<Head(s)>> \o SplitFirst(Tail(s))

\* s.endswith(suffix)
EndsWith(s, suffix) ==
    /\ Len(s) >= Len(suffix)
    /\ SubSeq(s, Len(s) - Len(suffix) + 1, Len(s)) = suffix

\* Python's < on str: lexicographic on code points, a proper prefix is smaller.
RECURSIVE StrLess(_, _)
StrLess(a, b) ==
    IF b = <<>> THEN FALSE
    ELSE IF a = <<>> THEN TRUE
    ELSE IF Head(a) # Head(b) THEN Head(a) < Head(b)
    ELSE StrLess(Tail(a), Tail(b))

StrMax(S) == CHOOSE x \in S : \A y \in S : y = x \/ StrLess(y, x)

StrMin(S) == CHOOSE x \in S : \A y \in S : y = x \/ StrLess(x, y)

\* list.sort() of the strings of S
RECURSIVE SortAsc(_)
SortAsc(S) == IF S = {} THEN <<>> ELSE <<StrMin(S)>> \o SortAsc(S \ {StrMin(S)})

\* list.sort(reverse=True) of the strings of S
RECURSIVE SortDesc(_)
SortDesc(S) == IF S = {} THEN <<>> ELSE <<StrMax(S)>> \o SortDesc(S \ {StrMax(S)})

\* str(n) for n >= 0
RECURSIVE Digits(_)
Digits(n) == IF n < 10 THEN <<48 + n>> ELSE Digits(n \div 10) \o <<48 + (n % 10)>>

\* a zero-padded two-digit strftime field (%S and its like)
Pad2(n) == <<48 + ((n \div 10) % 10), 48 + (n % 10)>>

\* a time stamp without zero padding
StrftimeUnpadded(t) == Digits(t)

\* datetime.now().strftime("%Y%m%d_%H%M%S"): fixed-width, zero-padded fields
Strftime(t) == Pad2(t)

Range(s) == {s[i] : i \in 1..Len(s)}


(***************************************************************************)
(* Parsing of one serial line (read_serial_data).                          *)
(***************************************************************************)
\* s.split(sep)
RECURSIVE Split(_, _)
Split(s, sep) ==
    IF \A i \in 1..Len(s) : s[i] # sep THEN <<s>>
    ELSE LET k == CHOOSE i \in 1..Len(s) :
                    s[i] = sep /\ \A j \in 1..(i - 1) : s[j] # sep
         IN <<SubSeq(s, 1, k - 1)>> \o Split(SubSeq(s, k + 1, Len(s)), sep)

IsDigit(c) == c \in 48..57

Unsigned(s) == IF s # <<>> /\ Head(s) \in {43, 45} THEN Tail(s) ELSE s

IsNegative(s) == s # <<>> /\ Head(s) = 45

RECURSIVE DigitsVal(_)
DigitsVal(s) ==
    IF s = <<>> THEN 0 ELSE 10 * DigitsVal(SubSeq(s, 1, Len(s) - 1)) + (s[Len(s)] - 48)

\* int(s) succeeds: optional surrounding whitespace, optional sign, decimal digits
\* (digit-group underscores are not in the alphabet of the modelled device).
IsIntLiteral(s) ==
    LET b == Unsigned(Strip(s)) IN b # <<>> /\ \A i \in 1..Len(b) : IsDigit(b[i])

IntVal(s) ==
    LET t == Strip(s) IN
    IF IsNegative(t) THEN 0 - DigitsVal(Unsigned(t)) ELSE DigitsVal(Unsigned(t))

\* float(s) succeeds: optional sign, digits with at most one decimal point and at
\* least one digit (exponents, inf and nan are not in the modelled alphabet).
IsFloatLiteral(s) ==
    LET b == Unsigned(Strip(s)) IN
    /\ \A i \in 1..Len(b) : IsDigit(b[i]) \/ b[i] = 46
    /\ Cardinality({i \in 1..Len(b) : b[i] = 46}) <= 1
    /\ \E i \in 1..Len(b) : IsDigit(b[i])

RECURSIVE DropTrailingZeros(_)
DropTrailingZeros(s) ==
    IF s # <<>> /\ s[Len(s)] = 48 THEN DropTrailingZeros(SubSeq(s, 1, Len(s) - 1)) ELSE s

\* float(s) as <<mantissa, number of decimal places>>: "1.50" and "1.5" are <<15, 1>>,
\* "2" and "2.0" are <<2, 0>>.
FloatVal(s) ==
    LET t == Strip(s)
        b == Unsigned(t)
        parts == Split(b, 46)
        whole == parts[1]
        frac == IF Len(parts) > 1 THEN DropTrailingZeros(parts[2]) ELSE <<>>
        m == DigitsVal(whole \o frac)
    IN <<IF IsNegative(t) THEN 0 - m ELSE m, Len(frac)>>

\* [float(x) for x in parts[1:]]
Floats(parts) == [i \in 1..(Len(parts) - 1) |-> FloatVal(parts[i + 1])]

\* the try block of the loop body does not raise ValueError
Parses(parts) ==
    /\ IsIntLiteral(parts[1])
    /\ \A i \in 2..Len(parts) : IsFloatLiteral(parts[i])

\* ser.readline().decode("utf-8", errors="ignore").strip()
Decoded(raw) == Strip(raw)

\* the loop body without its field-count check
WellFormedAnyCount(raw) ==
    LET line == Decoded(raw) IN line # <<>> /\ Parses(Split(line, 44))

\* the line passes the emptiness, field-count and parse checks of the loop body
WellFormed(raw) ==
    LET line == Decoded(raw) IN
    /\ line # <<>>
    /\ Len(Split(line, 44)) = DATA_COLUMNS + 1
    /\ Parses(Split(line, 44))

Timestamp(raw) == IntVal(Split(Decoded(raw), 44)[1])

\* a duration check on the time stamp itself, not on its distance from start_ts
PastDurationFromZero(timestamp, start) == timestamp >= RECORD_DURATION_MS

\* the duration check with > written for >=
PastDurationStrict(timestamp, start) == timestamp - start > RECORD_DURATION_MS

\* timestamp - start_ts >= duration_ms
PastDuration(timestamp, start) == timestamp - start >= RECORD_DURATION_MS

(***************************************************************************)
(* The label store on disk: dirs is the set of label directories under the *)
(* base folder, files the set of <<directory, file name>>.                 *)
(***************************************************************************)
IsCsv(name) == EndsWith(name, CsvExt)

CsvFiles(fs, d) == {f[2] : f \in {g \in fs : g[1] = d /\ IsCsv(g[2])}}

\* f"{dirname} ({count} samples)"
OptionStr(d, count) == d \o <<32, 40>> \o Digits(count) \o SamplesSuffix

\* load_labels: self.label_dirs
LabelDirs(ds) == SortAsc(ds)

\* load_labels: self.label_options
LabelOptions(ds, fs) == SortAsc({OptionStr(d, Cardinality(CsvFiles(fs, d))) : d \in ds})

\* load_sample_list: the names put in the listbox for directory d
SampleList(fs, d) == SortDesc(CsvFiles(fs, d))

\* add_new_label: "".join(c for c in label_name if c.isalnum() or c in ('_', '-')).strip()
IsAllowed(c) == IsAlnum(c) \/ c \in {95, 45}

\* add_new_label without the character filter
SanitizeStripOnly(label_name) == Strip(label_name)

Sanitize(label_name) == Strip(SelectSeq(label_name, IsAllowed))

\* save_data_to_csv: f"{self.current_label_dir}_{timestamp}.csv"
Filename(d, t) == d \o <<95>> \o Strftime(t) \o CsvExt

(***************************************************************************)
(* State.                                                                  *)
(***************************************************************************)
VARIABLES
    wio_port_name,     \* the detected port, or None
    dirs,              \* disk: label directories under the base folder
    files,             \* disk: <<directory, file name>>
    now,               \* wall clock, in seconds
    label_dirs,        \* self.label_dirs
    label_options,     \* self.label_options (the combobox values)
    current_label,     \* self.current_label (the combobox text)
    current_label_dir, \* self.current_label_dir, or None
    record_button,     \* state of self.record_button: "normal" or "disabled"
    status_var,        \* which message self.status_var holds
    samples_listbox,   \* items of self.samples_listbox
    selection,         \* selected index of the listbox, -1 for none
    depth,             \* record_and_save_data frames on the call stack
    pc,                \* where control is: idle (mainloop), update (master.update()
                       \* of the innermost frame), loop (the while loop of
                       \* read_serial_data), save (read_serial_data has returned)
    ser,               \* the serial handle of the capture under way: "none",
                       \* "open" or "closed"
    start_ts,          \* read_serial_data: start_ts, as <<>> for None and <<t>> for t
    data,              \* read_serial_data: data (the list the loop built, kept here
                       \* until the record action ends, returned or not)
    lines_read,        \* the raw lines readline() has returned to the capture under way
    typed,             \* log of the names submitted in the new-label dialog (kept
                       \* by SpecLabels only)
    recorded_data      \* record_and_save_data: recorded_data

vars == <<wio_port_name, dirs, files, now, label_dirs, label_options, current_label,
          current_label_dir, record_button, status_var, samples_listbox, selection,
          depth, pc, ser, start_ts, data, lines_read, typed, recorded_data>>

disk == <<dirs, files>>
labels == <<label_dirs, label_options, current_label, current_label_dir>>
listbox == <<samples_listbox, selection>>
locals == <<ser, start_ts, data, lines_read, recorded_data>>
stack == <<depth, pc>>

Port == "COM"

LabelA == <<97>>

\* What the base folder holds when the program starts.
InitialDisks ==
    { [base |-> FALSE, dirs |-> {}, files |-> {}],
      [base |-> TRUE, dirs |-> {}, files |-> {}],
      [base |-> TRUE, dirs |-> {LabelA}, files |-> {}] }

\* record_button state that follows the port: tk.NORMAL if self.wio_port_name else tk.DISABLED
ButtonForPort(port) == IF port # None THEN "normal" ELSE "disabled"

\* load_sample_list: what the listbox holds afterwards
LoadedList(ds, fs, d) == IF d = None \/ d \notin ds THEN <<>> ELSE SampleList(fs, d)

\* load_sample_list: the status afterwards (FileNotFoundError branch)
LoadedStatus(ds, d, st) == IF d # None /\ d \notin ds THEN "folder_not_found" ELSE st

\* Listbox.selection_set(i) on a list of n items: Tk ignores an index outside the list
SelectionSet(i, n) == IF 0 <= i /\ i < n THEN i ELSE -1

\* SerialRecorderApp.__init__
Constructed(port, d0) ==
    LET opts == LabelOptions(d0.dirs, d0.files)
        cur == IF opts # <<>> THEN opts[1] ELSE NoLabels
        dir == IF opts # <<>> THEN SplitFirst(cur) ELSE None
        st0 == IF port = None THEN "not_found" ELSE "found"
        st1 == IF d0.base THEN st0 ELSE "created_base"
        st2 == LoadedStatus(d0.dirs, dir, st1)
    IN
    /\ wio_port_name = port
    /\ dirs = d0.dirs
    /\ files = d0.files
    /\ now = ClockStart
    /\ label_dirs = LabelDirs(d0.dirs)
    /\ label_options = opts
    /\ current_label = cur
    /\ current_label_dir = dir
    /\ record_button = IF opts = <<>> THEN "disabled" ELSE ButtonForPort(port)
    /\ status_var = IF port # None /\ dir # None THEN "ready" ELSE st2
    /\ samples_listbox = LoadedList(d0.dirs, d0.files, dir)
    /\ selection = -1
    /\ ser = "none"
    /\ start_ts = <<>>
    /\ data = <<>>
    /\ lines_read = <<>>
    /\ typed = <<>>
    /\ recorded_data = <<>>

Init ==
    /\ \E port \in {None, Port}, d0 \in InitialDisks : Constructed(port, d0)
    /\ depth = 0
    /\ pc = "idle"

(***************************************************************************)
(* The user and the clock.                                                 *)
(***************************************************************************)
Tick ==
    /\ now < ClockStart + MaxTicks
    /\ now' = now + 1
    /\ UNCHANGED <<typed, wio_port_name, disk, labels, record_button, status_var, listbox,
                   stack, locals>>

\* Tk has control and dispatches an event to its handler: in the mainloop when
\* no handler runs, or in master.update() inside record_and_save_data, which
\* dispatches the events that were queued while the program was busy.
Dispatching == pc \in {"idle", "update"}

(***************************************************************************)
(* record_and_save_data, up to master.update().                            *)
(***************************************************************************)
RecordEntry ==
    IF current_label_dir = None
    THEN /\ status_var' = "no_label"
         /\ UNCHANGED <<record_button, stack>>
    ELSE /\ record_button' = "disabled"
         /\ depth' = depth + 1
         /\ pc' = "update"
         /\ UNCHANGED status_var

\* master.bind('x' / 'X', lambda event: self.record_and_save_data())
RecordKey ==
    /\ Dispatching
    /\ depth < MaxDepth
    /\ RecordEntry
    /\ UNCHANGED <<typed, wio_port_name, disk, now, labels, listbox, locals>>

\* A click on the Record button: Tk invokes the command unless the button is disabled.
RecordClick ==
    /\ Dispatching
    /\ depth < MaxDepth
    /\ IF record_button = "disabled"
       THEN UNCHANGED <<record_button, status_var, stack>>
       ELSE RecordEntry
    /\ UNCHANGED <<typed, wio_port_name, disk, now, labels, listbox, locals>>

(***************************************************************************)
(* read_serial_data.                                                       *)
(***************************************************************************)
\* an except branch that returns what was collected so far
ErrorResultPartial(partial) == partial

\* what the except branch returns
ErrorResult(partial) == <<>>

\* master.update() has dispatched every pending event and returns, and
\* read_serial_data starts: serial.Serial(...) and reset_input_buffer(), or the
\* early return without a port
ReadOpen ==
    /\ pc = "update"
    /\ IF wio_port_name = None
       THEN /\ status_var' = "no_port"
            /\ recorded_data' = <<>>
            /\ pc' = "save"
            /\ UNCHANGED <<ser, start_ts, data, lines_read>>
       ELSE \/ /\ ser' = "open"
               /\ status_var' = "recording"
               /\ start_ts' = <<>>
               /\ data' = <<>>
               /\ lines_read' = <<>>
               /\ pc' = "loop"
               /\ UNCHANGED recorded_data
            \/ \* serial.Serial raises: no handle was opened
               /\ status_var' = "capture_error"
               /\ recorded_data' = ErrorResult(<<>>)
               /\ pc' = "save"
               /\ data' = <<>>
               /\ UNCHANGED <<ser, start_ts, lines_read>>
    /\ UNCHANGED <<typed, wio_port_name, disk, now, labels, record_button, listbox, depth>>

\* the break of the duration check, and what follows the loop: close, status, return data
BreakAndReturn ==
    /\ ser' = "closed"
    /\ status_var' = "finished"
    /\ recorded_data' = data
    /\ pc' = "save"
    /\ start_ts' = <<>>
    /\ UNCHANGED data

\* one pass of the while loop on the raw line readline() returned
ReadLine(raw) ==
    /\ pc = "loop"
    /\ Len(lines_read) < MaxLines
    /\ lines_read' = Append(lines_read, raw)
    /\ IF ~WellFormed(raw)
       THEN UNCHANGED <<ser, start_ts, data, recorded_data, status_var, pc>>
       ELSE LET parts == Split(Decoded(raw), 44)
                timestamp == IntVal(parts[1])
                zero == IF start_ts = <<>> THEN timestamp ELSE start_ts[1]
            IN IF PastDuration(timestamp, zero)
                  THEN BreakAndReturn
                  ELSE /\ start_ts' = <<zero>>
                       /\ data' = Append(data, Floats(parts))
                       /\ UNCHANGED <<ser, recorded_data, status_var, pc>>
    /\ UNCHANGED <<typed, wio_port_name, disk, now, labels, record_button, listbox, depth>>

\* reset_input_buffer() or readline() raises: the except branch runs. It never
\* calls ser.close(); whether the handle is released is left to the runtime's
\* finalizer, which may or may not have run when the function returns.
ReadError ==
    /\ pc = "loop"
    /\ ser' \in {"open", "closed"}
    /\ status_var' = "capture_error"
    /\ recorded_data' = ErrorResult(data)
    /\ pc' = "save"
    /\ start_ts' = <<>>
    /\ lines_read' = <<>>
    /\ UNCHANGED data
    /\ UNCHANGED <<typed, wio_port_name, disk, now, labels, record_button, listbox, depth>>

(***************************************************************************)
(* save_data_to_csv and the rest of record_and_save_data.                  *)
(***************************************************************************)
\* save_data_to_csv goes on to write: not (not data or not self.current_label_dir)
Saveable(rec, dir) == rec # <<>> /\ dir # None

\* record_and_save_data returns: what belonged to this capture is gone (the
\* locals of read_serial_data went when it returned), and
\* control is back in the mainloop, or in the master.update() of the frame
\* that was interrupted
Return ==
    /\ depth' = depth - 1
    /\ pc' = IF depth > 1 THEN "update" ELSE "idle"
    /\ ser' = "none"
    /\ data' = <<>>
    /\ lines_read' = <<>>
    /\ recorded_data' = <<>>
    /\ UNCHANGED start_ts

SaveAndFinish ==
    /\ pc = "save"
    /\ \/ /\ ~Saveable(recorded_data, current_label_dir)
          /\ status_var' = "no_data"
          /\ UNCHANGED <<disk, labels, listbox>>
       \/ \* open(filepath, 'w') raises
          /\ Saveable(recorded_data, current_label_dir)
          /\ status_var' = "save_error"
          /\ UNCHANGED <<disk, labels, listbox>>
       \/ /\ Saveable(recorded_data, current_label_dir)
          /\ current_label_dir \in dirs
          /\ files' = files \cup {<<current_label_dir, Filename(current_label_dir, now)>>}
          /\ label_dirs' = LabelDirs(dirs)
          /\ label_options' = LabelOptions(dirs, files')
          /\ current_label_dir' = SplitFirst(current_label)
          /\ samples_listbox' = LoadedList(dirs, files', current_label_dir')
          /\ selection' = SelectionSet(0, Len(samples_listbox'))
          /\ status_var' = IF Len(samples_listbox') > 0 THEN "previewing"
                           ELSE LoadedStatus(dirs, current_label_dir', "saved")
          /\ UNCHANGED <<dirs, current_label>>
    /\ record_button' = "normal"
    /\ Return
    /\ UNCHANGED <<typed, wio_port_name, now>>

(***************************************************************************)
(* delete_selected_sample.                                                 *)
(***************************************************************************)
\* a focus rule that always reselects the deleted item's index
NextIndexSame(current_index, size) == IF size > 1 THEN current_index ELSE -1

\* next_index_to_select, from the selected index and the listbox size before the refresh
NextIndexToSelect(current_index, size) ==
    IF size > 1
    THEN IF current_index < size - 1 THEN current_index
         ELSE IF current_index > 0 THEN current_index - 1 ELSE -1
    ELSE -1

DeleteSample ==
    /\ Dispatching
    /\ IF selection = -1 \/ current_label_dir = None
       THEN /\ status_var' = "select_to_delete"
            /\ UNCHANGED <<disk, labels, listbox, record_button>>
       ELSE LET filename == samples_listbox[selection + 1]
                next == NextIndexToSelect(selection, Len(samples_listbox))
            IN IF <<current_label_dir, filename>> \notin files
               THEN \* os.remove raises OSError
                    /\ status_var' = "delete_error"
                    /\ UNCHANGED <<disk, labels, listbox, record_button>>
               ELSE /\ files' = files \ {<<current_label_dir, filename>>}
                    /\ label_dirs' = LabelDirs(dirs)
                    /\ label_options' = LabelOptions(dirs, files')
                    /\ current_label_dir' = SplitFirst(current_label)
                    /\ samples_listbox' = LoadedList(dirs, files', current_label_dir')
                    /\ record_button' = ButtonForPort(wio_port_name)
                    /\ selection' = IF next # -1
                                    THEN SelectionSet(next, Len(samples_listbox'))
                                    ELSE -1
                    /\ status_var' = "deleted"
                    /\ UNCHANGED <<dirs, current_label>>
    /\ UNCHANGED <<typed, wio_port_name, now, stack, locals>>

(***************************************************************************)
(* label_selected and preview_selected_sample_event.                       *)
(***************************************************************************)
\* The user picks an entry of the combobox: <<ComboboxSelected>> calls label_selected.
LabelSelected ==
    /\ Dispatching
    /\ IF label_options = <<>>
       THEN UNCHANGED <<labels, listbox, record_button, status_var>>
       ELSE \E option \in Range(label_options) :
              /\ current_label' = option
              /\ current_label_dir' = SplitFirst(option)
              /\ samples_listbox' = LoadedList(dirs, files, current_label_dir')
              /\ selection' = -1
              /\ status_var' = LoadedStatus(dirs, current_label_dir', status_var)
              /\ record_button' = ButtonForPort(wio_port_name)
              /\ UNCHANGED <<label_dirs, label_options>>
    /\ UNCHANGED <<typed, wio_port_name, disk, now, stack, locals>>

\* The user clicks an item of the listbox: <<ListboxSelect>> calls
\* preview_selected_sample_event.
SampleSelected ==
    /\ Dispatching
    /\ IF samples_listbox = <<>>
       THEN UNCHANGED <<selection, status_var>>
       ELSE \E i \in 0..(Len(samples_listbox) - 1) :
              /\ selection' = i
              /\ status_var' = IF <<current_label_dir, samples_listbox[i + 1]>> \in files
                               THEN "previewing" ELSE "preview_error"
    /\ UNCHANGED <<typed, wio_port_name, disk, now, labels, samples_listbox, record_button,
                   stack, locals>>

(***************************************************************************)
(* prompt_new_label.save_and_close and add_new_label.                      *)
(***************************************************************************)
\* What the user may type in the dialog.
RawNames ==
    { <<>>,                  \* nothing
      <<32>>,                \* " "
      <<33, 32>>,            \* "! "
      <<97>>,                \* "a"
      <<32, 97, 33>>,        \* " a!"
      <<95, 45>>,            \* "_-"
      <<95, 32, 33, 45>> }   \* "_ !-"

\* save_and_close passes the name on to add_new_label
PassedOn(new_label, known) == new_label # <<>> /\ new_label \notin Range(known)

SaveAndClose(raw) ==
    /\ Dispatching
    /\   LET new_label == Strip(raw)
             sanitized_name == Sanitize(new_label)
         IN
         /\ Cardinality(dirs) < MaxLabels \/ sanitized_name \in dirs \cup {<<>>}
         /\ IF ~PassedOn(new_label, label_dirs)
            THEN UNCHANGED <<disk, labels, listbox, record_button, status_var>>
            ELSE IF sanitized_name = <<>>
            THEN /\ status_var' = "label_invalid"
                 /\ UNCHANGED <<disk, labels, listbox, record_button>>
            ELSE IF sanitized_name \in dirs
            THEN \* os.makedirs raises FileExistsError
                 /\ status_var' = "label_create_error"
                 /\ UNCHANGED <<disk, labels, listbox, record_button>>
            ELSE /\ dirs' = dirs \cup {sanitized_name}
                 /\ label_dirs' = LabelDirs(dirs')
                 /\ label_options' = LabelOptions(dirs', files)
                 /\ IF OptionStr(sanitized_name, 0) \in Range(label_options')
                    THEN /\ current_label' = OptionStr(sanitized_name, 0)
                         /\ current_label_dir' = sanitized_name
                         /\ samples_listbox' = LoadedList(dirs', files, sanitized_name)
                         /\ selection' = -1
                         /\ record_button' = ButtonForPort(wio_port_name)
                    ELSE UNCHANGED <<current_label, current_label_dir, listbox,
                                     record_button>>
                 /\ status_var' = "label_created"
                 /\ UNCHANGED files
    /\ UNCHANGED <<wio_port_name, now, stack, locals>>

\* The user types a name in the dialog and presses Create.
CreateLabel == \E raw \in RawNames : SaveAndClose(raw) /\ UNCHANGED typed

\* The same, with the name logged.
CreateLabelLogged ==
    /\ Len(typed) < MaxDialogs
    /\ \E raw \in RawNames : SaveAndClose(raw) /\ typed' = Append(typed, raw)


(***************************************************************************)
(* What the device sends.                                                  *)
(***************************************************************************)
RECURSIVE Join(_)
Join(fields) ==
    IF Len(fields) = 1 THEN fields[1] ELSE fields[1] \o <<44>> \o Join(Tail(fields))

\* a line as readline() returns it, newline included
Line(ts_field, data_fields) == Join(<<ts_field>> \o data_fields) \o <<10>>

DataA == <<<<49>>, <<50>>, <<51>>, <<52>>, <<53>>, <<54>>>>                \* 1,2,3,4,5,6
DataB == <<<<50, 46, 53>>, <<48>>, <<48>>, <<48>>, <<48>>, <<45, 49>>>>    \* 2.5,0,0,0,0,-1
DataBad == <<<<49>>, <<50>>, <<120>>, <<52>>, <<53>>, <<54>>>>             \* 1,2,x,4,5,6
DataShort == <<<<49>>, <<50>>, <<51>>, <<52>>, <<53>>>>                    \* 1,2,3,4,5
DataLong == DataA \o <<<<55>>>>                                            \* 1,2,3,4,5,6,7

CaptureTimestamps == {0, 1, RECORD_DURATION_MS - 1, RECORD_DURATION_MS, RECORD_DURATION_MS + 1}

WellFormedLines ==
    {Line(Digits(t), DataA) : t \in CaptureTimestamps} \cup {Line(Digits(1), DataB)}

MalformedLines ==
    { <<>>,                                            \* timeout: b""
      <<32, 13, 10>>,                                  \* blank line
      Line(Digits(RECORD_DURATION_MS + 1), DataShort),
      Line(Digits(RECORD_DURATION_MS + 1), DataLong),
      Line(Digits(RECORD_DURATION_MS + 1), DataBad),
      Line(<<120>>, DataA),                            \* x,1,2,3,4,5,6
      Line(<<50, 46, 53>>, DataA) }                    \* 2.5,1,2,3,4,5,6

CaptureLines == WellFormedLines \cup MalformedLines

AppLines == {Line(Digits(0), DataA), Line(Digits(RECORD_DURATION_MS), DataA)}

(***************************************************************************)
(* Specifications.                                                         *)
(***************************************************************************)
Next ==
    \/ Tick
    \/ RecordKey
    \/ RecordClick
    \/ ReadOpen
    \/ \E raw \in AppLines : ReadLine(raw)
    \/ ReadError
    \/ SaveAndFinish
    \/ DeleteSample
    \/ LabelSelected
    \/ SampleSelected
    \/ CreateLabel

Spec == Init /\ [][Next]_vars

\* The user presses x while the program is idle.
RecordKeyWhenIdle == pc = "idle" /\ RecordKey

NextCapture ==
    \/ RecordKeyWhenIdle
    \/ ReadOpen
    \/ \E raw \in CaptureLines : ReadLine(raw)
    \/ ReadError
    \/ SaveAndFinish

\* The capture path alone, on every line the device model can send.
SpecCapture == Init /\ [][NextCapture]_vars

NextLabels ==
    \/ CreateLabelLogged
    \/ LabelSelected

\* The label store alone, with every name submitted in the dialog logged.
SpecLabels == Init /\ [][NextLabels]_vars

\* readline() returns the record that takes the break of the duration check
ReadEnding == \E raw \in CaptureLines : ReadLine(raw) /\ pc' # "loop"

\* readline() returns a line after which the loop goes round again; the device
\* model sends at most MaxLines - 1 of these in one capture
ReadOn ==
    /\ Len(lines_read) < MaxLines - 1
    /\ \E raw \in CaptureLines : ReadLine(raw) /\ pc' = "loop"

NextLoop ==
    \/ Tick
    \/ RecordKeyWhenIdle
    \/ ReadOpen
    \/ ReadOn
    \/ ReadEnding
    \/ ReadError
    \/ SaveAndFinish

\* The step ReadEnding takes on the record Line(Digits(t), DataA), with the
\* outcome of the loop body's checks on that record written out: it is not
\* empty, has DATA_COLUMNS + 1 fields that parse, and its time stamp is t.
ReadEndingAt(t) ==
    /\ pc = "loop"
    /\ Len(lines_read) < MaxLines
    /\ start_ts # <<>>
    /\ PastDuration(t, start_ts[1])
    /\ lines_read' = Append(lines_read, Line(Digits(t), DataA))
    /\ BreakAndReturn
    /\ UNCHANGED <<typed, wio_port_name, disk, now, labels, record_button, listbox, depth>>

\* The device delivers a record that ends the capture.
DeviceEnds == \E t \in CaptureTimestamps : ReadEndingAt(t)

\* The capture loop with a device that delivers: the loop calls readline()
\* again on every pass (its 0.1 s timeout makes each call return), so a record
\* the device keeps ready to send is read.
SpecLoop == Init /\ [][NextLoop]_vars /\ WF_vars(DeviceEnds)

(***************************************************************************)
(* Properties.                                                             *)
(***************************************************************************)
\* The lines read so far that the device model sent well formed, in arrival order.
SentWellFormed == SelectSeq(lines_read, LAMBDA r : r \in WellFormedLines)

\* The time stamp and the six values the device model put in a well-formed line.
SentTimestamp(raw) ==
    CHOOSE t \in CaptureTimestamps : raw \in {Line(Digits(t), DataA), Line(Digits(t), DataB)}

SentValues(raw) ==
    IF \E t \in CaptureTimestamps : raw = Line(Digits(t), DataA)
    THEN <<<<1, 0>>, <<2, 0>>, <<3, 0>>, <<4, 0>>, <<5, 0>>, <<6, 0>>>>
    ELSE <<<<25, 1>>, <<0, 0>>, <<0, 0>>, <<0, 0>>, <<0, 0>>, <<-1, 0>>>>

Delta(W, i) == SentTimestamp(W[i]) - SentTimestamp(W[1])

\* C1: every record included in a capture lies less than duration_ms after the
\* first accepted record; the first accepted record at or past duration_ms is
\* left out and is the last line the loop reads.
C1_WithinDuration ==
    LET W == SentWellFormed
        n == Len(W)
    IN
    /\ pc = "loop" =>
         /\ Len(data) = n
         /\ \A i \in 1..n : Delta(W, i) < RECORD_DURATION_MS
    /\ (pc = "save" /\ status_var = "finished") =>
         /\ n >= 1
         /\ W[n] = lines_read[Len(lines_read)]
         /\ Delta(W, n) >= RECORD_DURATION_MS
         /\ \A i \in 1..(n - 1) : Delta(W, i) < RECORD_DURATION_MS
         /\ Len(recorded_data) = n - 1

C1_Witness ==
    /\ pc = "save"
    /\ status_var = "finished"
    /\ Len(recorded_data) = 1
    /\ Delta(SentWellFormed, 2) = RECORD_DURATION_MS

\* C2: an empty, miscounted or unparsable line adds nothing to the capture,
\* never sets start_ts and never ends the loop; the capture holds exactly the
\* values of the accepted lines, in arrival order.
C2_MalformedDiscarded ==
    LET W == SentWellFormed
        n == Len(W)
    IN
    /\ pc = "loop" =>
         /\ data = [i \in 1..n |-> SentValues(W[i])]
         /\ start_ts = IF n = 0 THEN <<>> ELSE <<SentTimestamp(W[1])>>
    /\ (pc = "save" /\ status_var = "finished") =>
         /\ lines_read[Len(lines_read)] \in WellFormedLines
         /\ recorded_data = [i \in 1..(n - 1) |-> SentValues(W[i])]

C2_Witness ==
    /\ pc = "loop"
    /\ Len(lines_read) = 2
    /\ lines_read[1] \in MalformedLines
    /\ lines_read[1] # <<>>
    /\ lines_read[2] \in WellFormedLines
    /\ Len(data) = 1

\* C3: once read_serial_data has returned, normally or through the except
\* branch, the serial handle it opened is no longer open.
C3_DeviceReleased == pc = "save" => ser # "open"

\* C4: without a device the recording control is disabled in every reachable
\* state, and no device is ever opened.
C4_DisabledWithoutDevice ==
    wio_port_name = None => (record_button = "disabled" /\ ser = "none")

\* C5: a capture that aborts on an error returns nothing, whatever was collected,
\* and the record action it belongs to leaves the files on disk as they were.
C5_AllOrNothing ==
    [][(pc = "save" /\ status_var = "capture_error")
         => (recorded_data = <<>> /\ files' = files)]_vars

C5_Witness ==
    /\ pc = "save"
    /\ status_var = "capture_error"
    /\ data # <<>>
    /\ recorded_data = <<>>

\* The characters of a raw name that a label keeps.
KeptChars(raw) ==
    SelectSeq(raw, LAMBDA c : c \in (48..57) \cup (65..90) \cup (97..122) \cup {95, 45})

\* C6: a submitted name is sanitized to its alphanumeric, underscore and hyphen
\* characters; if that is empty or names an existing label directory, the
\* directories and the current label stay as they are; otherwise exactly the
\* directory of that name is added.
C6_CreateLabel ==
    [][Len(typed') = Len(typed) + 1 =>
         LET name == KeptChars(typed'[Len(typed')]) IN
         IF name = <<>> \/ name \in dirs
         THEN /\ dirs' = dirs
              /\ current_label' = current_label
              /\ current_label_dir' = current_label_dir
         ELSE /\ dirs' = dirs \cup {name}
              /\ dirs' # dirs]_vars

C6_Witness ==
    /\ typed = <<<<32, 97, 33>>, <<32, 97, 33>>>>
    /\ dirs = {LabelA}
    /\ status_var = "label_create_error"

\* C7: after a successful delete of the selected item i of n, the list has n - 1
\* items and the selection is i when i < n - 1, i - 1 when the last of several
\* items went, and none when the only item went; it is never past the list.
C7_SelectionAfterDelete ==
    [][(files' # files /\ files' \subseteq files) =>
         LET i == selection
             n == Len(samples_listbox)
         IN
         /\ Len(samples_listbox') = n - 1
         /\ selection' = IF i < n - 1 THEN i ELSE IF n > 1 THEN i - 1 ELSE -1
         /\ selection' < Len(samples_listbox')]_vars

C7_Witness ==
    /\ status_var = "deleted"
    /\ now = ClockStart + 1
    /\ current_label_dir = LabelA
    /\ samples_listbox = <<Filename(LabelA, ClockStart + 1)>>
    /\ selection = 0

\* The wall clock second a sample file name carries.
RECURSIVE LastIndexOf(_, _)
LastIndexOf(s, c) ==
    IF s = <<>> THEN 0
    ELSE IF s[Len(s)] = c THEN Len(s)
    ELSE LastIndexOf(SubSeq(s, 1, Len(s) - 1), c)

WrittenAt(name) ==
    DigitsVal(SubSeq(name, LastIndexOf(name, 95) + 1, Len(name) - Len(CsvExt)))

\* The list shows the samples of the current label, greatest name first and
\* latest written first.
NewestFirst(list, fs, dir) ==
    /\ dir # None => Range(list) = CsvFiles(fs, dir)
    /\ \A i, j \in 1..Len(list) :
         i < j => (StrLess(list[j], list[i]) /\ WrittenAt(list[i]) > WrittenAt(list[j]))

\* C8: the sample list of the current label is always in descending order of
\* file name, the latest written sample first, and the sample selected at
\* index 0 after a successful record is the file that record wrote.
C8_NewestFirst ==
    /\ NewestFirst(samples_listbox, files, current_label_dir)
    /\ [][/\ NewestFirst(samples_listbox', files', current_label_dir')
          /\ (pc = "save" /\ files' # files) =>
               /\ selection' = 0
               /\ samples_listbox'[1] = Filename(current_label_dir, now)
               /\ <<current_label_dir, samples_listbox'[1]>> \in files' \ files]_vars

C8_Witness ==
    /\ pc = "idle"
    /\ status_var = "previewing"
    /\ selection = 0
    /\ samples_listbox = <<Filename(LabelA, ClockStart + 1), Filename(LabelA, ClockStart)>>

\* C9: when a capture has aborted on an error, the status shown once the record
\* action has finished is the capture error, and the recording control is
\* enabled again.
C9_CaptureErrorReported ==
    [][(pc = "save" /\ status_var = "capture_error" /\ pc' # "save")
         => (status_var' = "capture_error" /\ record_button' = "normal")]_vars

\* C10: while one record_and_save_data is in flight no second one starts.
C10_NoSecondRecord == depth <= 1

\* The last line read is a well-formed record at least duration_ms after the
\* first well-formed record read.
EndingDelivered ==
    LET W == SentWellFormed
        n == Len(W)
    IN /\ lines_read # <<>>
       /\ lines_read[Len(lines_read)] \in WellFormedLines
       /\ Delta(W, n) >= RECORD_DURATION_MS

\* An I/O error ended the capture.
Raised == pc = "save" /\ status_var = "capture_error"

\* A first record has been accepted and the device model has a record at least
\* duration_ms after it.
DeviceCanEnd ==
    /\ SentWellFormed # <<>>
    /\ \E t \in CaptureTimestamps :
         t - SentTimestamp(SentWellFormed[1]) >= RECORD_DURATION_MS

\* C11: a pass of the capture loop ends the loop if and only if it read a
\* well-formed record at least duration_ms after the first accepted record or
\* an I/O error occurred: timeouts, malformed lines and records inside the window
\* keep it running, so without such a record the loop never ends; and once the
\* device delivers such a record the loop does end (the delivery that SpecLoop
\* is fair to is exactly the pass of the loop that takes the break).
C11_LoopEnds ==
    /\ [][pc = "loop" => (pc' # "loop" <=> (EndingDelivered' \/ Raised'))]_vars
    /\ [][ReadEnding <=> DeviceEnds]_vars
    /\ (pc = "loop" /\ DeviceCanEnd) ~> (pc # "loop")

C11_Witness ==
    /\ pc = "save"
    /\ status_var = "finished"
    /\ Len(lines_read) = 2
    /\ lines_read[1] = Line(Digits(1), DataB)
    /\ lines_read[2] = Line(Digits(RECORD_DURATION_MS + 1), DataA)

=============================================================================
